---- MODULE Spec2Model ----
(***************************************************************************)
(* Model of bwenv.py: a CLI that moves KEY=VALUE secrets between a         *)
(* Bitwarden vault (through the `bw` binary) and .env style files.         *)
(*                                                                         *)
(* Strings are sequences of one-character strings, so that split/strip    *)
(* and the substring search of the backend are computed, not assumed.     *)
(* A dict is a sequence of <<key, value>> pairs with unique keys, in      *)
(* insertion order (Python dict semantics).                                *)
(***************************************************************************)
EXTENDS Integers, Sequences, FiniteSets, TLC

VARIABLES vault,    \* the remote vault: sequence of items, in creation order
          config,   \* the config file: its folder_id, or NoConfig
          files,    \* the env files on disk
          proc,     \* one record per invocation slot (process)
          runs,     \* number of invocations started so far
          vver,     \* number of vault mutations so far (history)
          last,     \* the latest vault mutation (history)
          faults,   \* number of bw calls that exited non-zero so far
          rt        \* working state of the format/parse round trip

vars == <<vault, config, files, proc, runs, vver, last, faults, rt>>

(* ----------------------------- bounds --------------------------------- *)
MaxRuns == 2        \* invocations per behaviour
MaxFaults == 1      \* bw calls that exit non-zero per behaviour
MaxStrLen == 2      \* length of the values of the round-trip mappings
Procs == {1, 2}     \* invocations that may overlap

(* ----------------------------- strings -------------------------------- *)
Alphabet == {"a", " ", "=", "\n"}

\* the characters str.strip() removes, within Alphabet
Whitespace == {" ", "\n"}

StringsUpTo(n) == UNION {[1..k -> Alphabet] : k \in 0..n}

\* str.find("="): position of the first "=", 0 when there is none
FindEq(s) ==
    IF \E i \in 1..Len(s) : s[i] = "="
    THEN CHOOSE i \in 1..Len(s) : s[i] = "=" /\ \A j \in 1..(i-1) : s[j] # "="
    ELSE 0

\* p.split("=", maxsplit=1)
Split1(p) ==
    IF FindEq(p) = 0 THEN <<p>>
    ELSE <<SubSeq(p, 1, FindEq(p) - 1), SubSeq(p, FindEq(p) + 1, Len(p))>>

\* s.strip(): leading and trailing whitespace removed
Strip(s) ==
    LET keep == {i \in 1..Len(s) : s[i] \notin Whitespace}
    IN  IF keep = {} THEN <<>>
        ELSE SubSeq(s, CHOOSE i \in keep : \A j \in keep : i <= j,
                       CHOOSE i \in keep : \A j \in keep : j <= i)

(* ------------------------------ dicts --------------------------------- *)
HasKey(d, k) == \E i \in 1..Len(d) : d[i][1] = k

\* d[k] = v
DictSet(d, k, v) ==
    IF HasKey(d, k)
    THEN [i \in 1..Len(d) |-> IF d[i][1] = k THEN <<k, v>> ELSE d[i]]
    ELSE Append(d, <<k, v>>)

RECURSIVE DictFrom(_, _)
\* { k: v for (k, v) in pairs }, continued from d
DictFrom(pairs, d) ==
    IF pairs = <<>> THEN d
    ELSE DictFrom(Tail(pairs), DictSet(d, Head(pairs)[1], Head(pairs)[2]))

\* dict equality (==): same keys with the same values, order ignored
DictEq(d, e) ==
    /\ Len(d) = Len(e)
    /\ \A i \in 1..Len(d) : \E j \in 1..Len(e) : d[i] = e[j]

(* ------------------------- set_bw / get_bw ---------------------------- *)
\* a line for which p.split("=", maxsplit=1)[1] raises IndexError
Malformed(p) == Len(Split1(p)) < 2

\* the dict comprehension over the well-formed lines only
ParseLinesSkipping(lines) ==
    LET good == SelectSeq(lines, LAMBDA p : ~Malformed(p))
    IN  [ok |-> TRUE,
         values |-> DictFrom([i \in 1..Len(good) |->
                                 <<Split1(good[i])[1], Strip(Split1(good[i])[2])>>],
                             <<>>)]

\* set_bw's dict comprehension; ok = FALSE when it raises IndexError
ParseLines(lines) ==
    IF \E i \in 1..Len(lines) : Malformed(lines[i])
    THEN [ok |-> FALSE, values |-> <<>>]
    ELSE [ok |-> TRUE,
          values |-> DictFrom([i \in 1..Len(lines) |->
                                  <<Split1(lines[i])[1], Strip(Split1(lines[i])[2])>>],
                              <<>>)]

FormatLineNoNewline(kv) == kv[1] \o <<"=">> \o kv[2]

\* f"{key}={value}\n"
FormatLine(kv) == kv[1] \o <<"=">> \o kv[2] \o <<"\n">>

\* get_bw's list of lines
FormatLines(values) == [i \in 1..Len(values) |-> FormatLine(values[i])]

(* ---------------------- round trip specification ---------------------- *)
\* field names: one character; values: up to MaxStrLen characters
RTKeys == [1..1 -> Alphabet]
RTValues == StringsUpTo(MaxStrLen)
RTMappings ==
    {<<>>} \cup {<<<<k, v>>>> : k \in RTKeys, v \in RTValues}
           \cup {<<<<k1, v1>>, <<k2, v2>>>> :
                    k1 \in {<<"a">>}, v1 \in RTValues,
                    k2 \in RTKeys \ {<<"a">>}, v2 \in RTValues}

RTIdle == [pc |-> "idle", m |-> <<>>, lines |-> <<>>,
           parsed |-> [ok |-> FALSE, values |-> <<>>]]


(* ------------------------------ values -------------------------------- *)
None == "None"              \* os.environ.get("BW_SESSION") is None
NoConfig == "NoConfig"      \* the config file is missing or unreadable
Stdio == "-"                \* the sentinel of -i and -o
EnvFile == "out.env"        \* a named env file

Keys == {None, "tok"}
Targets == {Stdio, EnvFile}
FileNames == {EnvFile}

ItemNames == {<<"d">>, <<"d", "b">>}
FolderNames == {<<"d", "b">>, <<"b">>, <<"d", "d">>}

\* what sys.stdin.readlines() may return
StdinInputs ==
    { << <<"A", "=", "1", "\n">>, <<"B", "=", "2", "\n">> >>,
      << <<"A", "=", " ", "3", "\n">> >>,
      << <<"A", "=", "1", "\n">>, <<"\n">>, <<"B", "=", "2", "\n">> >> }

NoItem == [id |-> 0, object |-> "none", secureNote |-> [type |-> 0],
           folderId |-> "", type |-> 0, name |-> <<>>, fields |-> <<>>]

NoFolder == [id |-> "", name |-> <<>>]

NoFile == [exists |-> FALSE, lines |-> <<>>]

(* --------------------------- the bw binary ---------------------------- *)
\* the folders of the vault
Folders == << [id |-> "F1", name |-> <<"d", "b">>],
              [id |-> "F2", name |-> <<"b", "d">>] >>

\* --search: the search term occurs in the name
IsSubstring(needle, hay) ==
    \E i \in 0..(Len(hay) - Len(needle)) :
        SubSeq(hay, i + 1, i + Len(needle)) = needle

\* bw list folders --search name
ListFolders(name, rc) ==
    [rc |-> rc,
     items |-> IF rc = 0
               THEN SelectSeq(Folders, LAMBDA f : IsSubstring(name, f.name))
               ELSE <<>>]

\* bw list items --folderid folder --search name
ListItems(v, folder, name, rc) ==
    [rc |-> rc,
     items |-> IF rc = 0
               THEN SelectSeq(v, LAMBDA it : it.folderId = folder
                                             /\ IsSubstring(name, it.name))
               ELSE <<>>]

\* json.dumps(obj), the input of bw encode
Json(obj) == [form |-> "json", obj |-> obj]

\* the stdout of bw encode: the encoded object, or nothing when it failed
BwEncode(text, rc) ==
    IF rc = 0 /\ text.form = "json"
    THEN [form |-> "b64", obj |-> text.obj]
    ELSE [form |-> "empty", obj |-> NoItem]

NoInput == [form |-> "none", obj |-> NoItem]

\* the exit status of bw edit/create: it fails on a payload it cannot decode
MutateRc(payload, rc) == IF payload.form = "b64" THEN rc ELSE 1

\* bw create item: the vault gives the new item its id
BwCreate(v, payload) ==
    Append(v, [id |-> Len(v) + 1, object |-> payload.obj.object,
               secureNote |-> payload.obj.secureNote,
               folderId |-> payload.obj.folderId, type |-> payload.obj.type,
               name |-> payload.obj.name, fields |-> payload.obj.fields])

\* bw edit item id: the item is replaced by the payload
BwEdit(v, id, payload) ==
    [i \in 1..Len(v) |-> IF v[i].id = id
                         THEN [payload.obj EXCEPT !.id = id]
                         ELSE v[i]]

(* ------------------------------ class BW ------------------------------ *)
\* BW.get_folder on the result of the search
get_folder(res) ==
    IF res.rc # 0 THEN [ok |-> FALSE, obj |-> NoFolder]
    ELSE IF Len(res.items) # 1 THEN [ok |-> FALSE, obj |-> NoFolder]
    ELSE [ok |-> TRUE, obj |-> res.items[1]]

get_item_first(res) ==
    IF res.rc # 0 \/ Len(res.items) = 0
    THEN [ok |-> FALSE, obj |-> NoItem]
    ELSE [ok |-> TRUE, obj |-> res.items[1]]

\* BW.get_item on the result of the search
get_item(res) ==
    IF res.rc # 0 THEN [ok |-> FALSE, obj |-> NoItem]
    ELSE IF Len(res.items) # 1 THEN [ok |-> FALSE, obj |-> NoItem]
    ELSE [ok |-> TRUE, obj |-> res.items[1]]

\* BW.get_values: { field['name']: field['value'] for field in item["fields"] }
get_values(item) ==
    DictFrom([i \in 1..Len(item.fields) |->
                 <<item.fields[i].name, item.fields[i].value>>], <<>>)

exists_uncaught(res) ==
    [raised |-> ~get_item(res).ok, value |-> TRUE]

\* BW.exists: try get_item, except anything: False
exists(res) ==
    [raised |-> FALSE, value |-> get_item(res).ok]

\* [{"name": key, "value": val, "type": 0} for key, val in values.items()]
FieldList(values) ==
    [i \in 1..Len(values) |->
        [name |-> values[i][1], value |-> values[i][2], type |-> 0]]

\* the item dict that set_values builds for a create
NewItem(folder, name, values) ==
    [secureNote |-> [type |-> 0], object |-> "item", folderId |-> folder,
     type |-> 2, name |-> name, fields |-> FieldList(values)]

(* ------------------------------ get_bw -------------------------------- *)
get_bw_files_open_first(fs, target, r, lines) ==
    IF target = Stdio THEN fs
    ELSE [fs EXCEPT ![target] =
             [exists |-> TRUE, lines |-> IF r.ok THEN lines ELSE <<>>]]

\* the files after get_bw: nothing is opened unless get_values returned
get_bw_files(fs, target, r, lines) ==
    IF ~r.ok \/ target = Stdio THEN fs
    ELSE [fs EXCEPT ![target] = [exists |-> TRUE, lines |-> lines]]

\* the lines get_bw writes to its target, sys.stdout or the named file
get_bw_written(r, lines) == IF r.ok THEN lines ELSE <<>>

(* ------------------------------- main --------------------------------- *)
SessionNeverMissing(key) == FALSE

\* KEY is None
MissingSession(key) == key = None

Idle == [verb |-> "none", key |-> None, name |-> <<>>, file |-> Stdio,
         s |-> FALSE, pc |-> "idle", status |-> "idle", folder |-> NoConfig,
         lines |-> <<>>, values |-> <<>>, search |-> <<>>, found |-> FALSE,
         got |-> NoItem, item |-> NoItem, encoded |-> NoInput,
         calls |-> <<>>, log |-> <<>>, out |-> <<>>,
         seen |-> 0]

Call(cmd, name, id, input, rc) ==
    [cmd |-> cmd, name |-> name, id |-> id, input |-> input, rc |-> rc]

\* 1 for a non-zero exit status
Failed(rc) == IF rc = 0 THEN 0 ELSE 1

\* the exit statuses the next call of bw may have, `used` calls of this step
\* having exited non-zero already
ExitCodes(used) == IF faults + used < MaxFaults THEN {0, 1} ELSE {0}

\* Slot p is the one the next invocation takes: the first that is not
\* running (slots are interchangeable).
CanStart(p) ==
    /\ proc[p].status # "running"
    /\ runs < MaxRuns
    /\ \A q \in Procs : q < p => proc[q].status = "running"

\* a fresh invocation in slot p
Fresh(p, verb, key, name, file, s) ==
    [Idle EXCEPT !.verb = verb, !.key = key, !.name = name, !.file = file,
                 !.s = s, !.pc = "main", !.status = "running"]

\* logger.fatal("No BW_SESSION"); exit(1): the arguments are never looked at
NoSession(r) ==
    [Idle EXCEPT !.verb = r.verb, !.key = r.key, !.pc = "done",
                 !.status = "exit1", !.log = <<"No BW_SESSION">>]

\* get_config: logger.fatal("Missing config_file ..."); exit(1)
NoConfigFile(r) ==
    [Idle EXCEPT !.verb = r.verb, !.key = r.key, !.pc = "done",
                 !.status = "exit1", !.log = <<"Missing config_file">>]

Raised(r) == [r EXCEPT !.pc = "done", !.status = "raised"]

Exit0(r) == [r EXCEPT !.pc = "done", !.status = "exit0"]

\* the running invocation of slot p becomes r
Become(p, r) ==
    proc' = [q \in Procs |-> IF q = p THEN r ELSE proc[q]]

\* A new invocation r begins in slot p.  The records of the invocations that
\* have finished are dropped: two finished records side by side are those of
\* invocations that overlapped.
Begin(p, r) ==
    /\ proc' = [q \in Procs |->
                  IF q = p THEN r
                  ELSE IF proc[q].status = "running" THEN proc[q]
                  ELSE Idle]
    /\ runs' = runs + 1

\* no mutation of the vault yet
NoMutation ==
    [cmd |-> "none", name |-> <<>>, folder |-> NoConfig, values |-> <<>>,
     ver |-> 0, fresh |-> FALSE]

\* The mutation invocation r makes now.  fresh: r's search found no item and
\* the vault has not changed since that search.
Mutation(r, cmd) ==
    [cmd |-> cmd, name |-> r.name, folder |-> r.folder, values |-> r.values,
     ver |-> vver + 1,
     fresh |-> /\ r.seen = vver
               /\ Len(r.search) = 1
               /\ r.search[1].rc = 0
               /\ r.search[1].items = <<>>]

\* BW.sync: bw sync is run and its exit status is not looked at
sync(r, rc) ==
    [r EXCEPT !.calls = Append(@, Call("sync", <<>>, 0, NoInput, rc)),
              !.log = Append(@, "Synced")]

\* BW.encode of r.item: res.stdout is returned whatever the exit status
encode(r, rc) ==
    [r EXCEPT !.calls = Append(@, Call("encode", <<>>, 0, Json(r.item), rc)),
              !.encoded = BwEncode(Json(r.item), rc)]

\* main up to the verb: the invocation that ends there, if it does
Startup(r, needsConfig) ==
    IF MissingSession(r.key) THEN NoSession(r)
    ELSE IF needsConfig /\ config = NoConfig THEN NoConfigFile(r)
    ELSE r

\* an invocation that ends in main before its verb: nothing else changes
EndsAtStartup(p, r, needsConfig) ==
    /\ Startup(r, needsConfig).status = "exit1"
    /\ Begin(p, Startup(r, needsConfig))
    /\ UNCHANGED <<vault, config, files, vver, last, faults, rt>>

\* main, verb init: bw.get_folder, then set_config
MainInit(p) ==
    /\ CanStart(p)
    /\ \E key \in Keys :
         \/ EndsAtStartup(p, Fresh(p, "init", key, <<>>, Stdio, FALSE), FALSE)
         \/ /\ ~MissingSession(key)
            /\ \E name \in FolderNames, rc \in ExitCodes(0) :
                 LET r == Fresh(p, "init", key, name, Stdio, FALSE)
                     res == ListFolders(name, rc)
                     f == get_folder(res)
                     c == [r EXCEPT
                              !.calls = Append(@, Call("list_folders", name, 0,
                                                       NoInput, rc)),
                              !.search = Append(@, res),
                              !.got = f.obj]
                 IN  /\ Begin(p, IF f.ok THEN Exit0(c) ELSE Raised(c))
                     /\ config' = IF f.ok THEN f.obj.id ELSE config
                     /\ faults' = faults + Failed(rc)
            /\ UNCHANGED <<vault, files, vver, last, rt>>

\* get_bw on the result res of the search of bw.get_values
get_bw(r, res) ==
    LET it == get_item(res)
        values == get_values(it.obj)
        lines == FormatLines(values)
        c == [r EXCEPT
                 !.calls = Append(@, Call("list_items", r.name, 0, NoInput,
                                          res.rc)),
                 !.search = Append(@, res),
                 !.seen = vver,
                 !.got = it.obj,
                 !.values = values,
                 !.lines = lines,
                 !.out = get_bw_written(it, lines)]
    IN  IF it.ok THEN Exit0([c EXCEPT !.log = Append(@, "Loaded")])
        ELSE Raised(c)

\* main, verb get: bw.sync() under -s, then get_bw
MainGet(p) ==
    /\ CanStart(p)
    /\ \E key \in Keys :
         \/ EndsAtStartup(p, Fresh(p, "get", key, <<>>, Stdio, FALSE), TRUE)
         \/ /\ ~MissingSession(key)
            /\ config # NoConfig
            /\ \E name \in ItemNames, o \in Targets, s \in BOOLEAN :
                 \E rc1 \in IF s THEN ExitCodes(0) ELSE {0} :
                   \E rc \in ExitCodes(Failed(rc1)) :
                     LET r == [Fresh(p, "get", key, name, o, s) EXCEPT
                                  !.folder = config]
                         res == ListItems(vault, config, name, rc)
                         g == get_bw(IF s THEN sync(r, rc1) ELSE r, res)
                     IN  /\ Begin(p, g)
                         /\ files' = get_bw_files(files, o, get_item(res),
                                                  g.lines)
                         /\ faults' = faults + Failed(rc1) + Failed(rc)
            /\ UNCHANGED <<vault, config, vver, last, rt>>

\* set_bw up to bw.set_values, on the lines it has read
set_bw(r, src) ==
    LET c == [r EXCEPT !.lines = src.lines]
        parsed == ParseLines(src.lines)
    IN  IF ~src.exists THEN Raised(c)
        ELSE IF ~parsed.ok THEN Raised(c)
        ELSE [c EXCEPT !.values = parsed.values, !.pc = "exists"]

\* main, verb set, with set_bw up to bw.set_values
MainSet(p) ==
    /\ CanStart(p)
    /\ \E key \in Keys :
         \/ EndsAtStartup(p, Fresh(p, "set", key, <<>>, Stdio, FALSE), TRUE)
         \/ /\ ~MissingSession(key)
            /\ config # NoConfig
            /\ \E name \in ItemNames, i \in Targets, s \in BOOLEAN :
                 LET r == [Fresh(p, "set", key, name, i, s) EXCEPT
                              !.folder = config]
                 IN  IF i = Stdio
                     THEN \E stdin \in StdinInputs :
                            Begin(p, set_bw(r, [exists |-> TRUE,
                                                lines |-> stdin]))
                     ELSE Begin(p, set_bw(r, files[i]))
            /\ UNCHANGED <<vault, config, files, vver, last, faults, rt>>

\* main, verb sync: bw.sync()
MainSync(p) ==
    /\ CanStart(p)
    /\ \E key \in Keys :
         \/ EndsAtStartup(p, Fresh(p, "sync", key, <<>>, Stdio, FALSE), TRUE)
         \/ /\ ~MissingSession(key)
            /\ config # NoConfig
            /\ \E rc \in ExitCodes(0) :
                 LET r == [Fresh(p, "sync", key, <<>>, Stdio, FALSE) EXCEPT
                              !.folder = config]
                 IN  /\ Begin(p, Exit0(sync(r, rc)))
                     /\ faults' = faults + Failed(rc)
            /\ UNCHANGED <<vault, config, files, vver, last, rt>>

\* set_values: self.exists(name); when it is False the item dict is built
\* and encoded
Exists(p) ==
    /\ proc[p].pc = "exists"
    /\ \E rc \in ExitCodes(0) :
         LET res == ListItems(vault, proc[p].folder, proc[p].name, rc)
             e == exists(res)
             r == [proc[p] EXCEPT
                      !.calls = Append(@, Call("list_items", proc[p].name,
                                               0, NoInput, rc)),
                      !.search = Append(@, res),
                      !.seen = vver,
                      !.found = e.value]
         IN  IF e.raised \/ e.value
             THEN /\ Become(p, IF e.raised THEN Raised(r)
                               ELSE [r EXCEPT !.pc = "update_values"])
                  /\ faults' = faults + Failed(rc)
             ELSE \E rc2 \in ExitCodes(Failed(rc)) :
                    /\ Become(p, encode([r EXCEPT
                                           !.pc = "create",
                                           !.item = NewItem(r.folder, r.name,
                                                            r.values)], rc2))
                    /\ faults' = faults + Failed(rc) + Failed(rc2)
    /\ UNCHANGED <<vault, config, files, runs, vver, last, rt>>

\* update_values: self.get_item(name), the field list is replaced and the
\* item encoded
UpdateValues(p) ==
    /\ proc[p].pc = "update_values"
    /\ \E rc \in ExitCodes(0) :
         LET res == ListItems(vault, proc[p].folder, proc[p].name, rc)
             it == get_item(res)
             r == [proc[p] EXCEPT
                      !.calls = Append(@, Call("list_items", proc[p].name,
                                               0, NoInput, rc)),
                      !.search = Append(@, res),
                      !.seen = vver,
                      !.got = it.obj]
         IN  IF ~it.ok
             THEN /\ Become(p, Raised(r))
                  /\ faults' = faults + Failed(rc)
             ELSE \E rc2 \in ExitCodes(Failed(rc)) :
                    /\ Become(p, encode([r EXCEPT
                                           !.pc = "edit",
                                           !.item = [it.obj EXCEPT !.fields =
                                                       FieldList(r.values)]],
                                        rc2))
                    /\ faults' = faults + Failed(rc) + Failed(rc2)
    /\ UNCHANGED <<vault, config, files, runs, vver, last, rt>>

\* what main does once set_bw has returned: bw.sync() under -s
AfterSet(r, rc) == Exit0(IF r.s THEN sync(r, rc) ELSE r)

\* update_values: bw edit item, the exit status is not looked at
Edit(p) ==
    /\ proc[p].pc = "edit"
    /\ \E rc0 \in ExitCodes(0) :
         \E rc2 \in IF proc[p].s THEN ExitCodes(Failed(rc0)) ELSE {0} :
           LET rc == MutateRc(proc[p].encoded, rc0)
               r == [proc[p] EXCEPT
                        !.calls = Append(@, Call("edit", <<>>, proc[p].item.id,
                                                 proc[p].encoded, rc)),
                        !.log = Append(@, "Updated")]
           IN  /\ Become(p, AfterSet(r, rc2))
               /\ vault' = IF rc = 0
                           THEN BwEdit(vault, proc[p].item.id, proc[p].encoded)
                           ELSE vault
               /\ vver' = IF rc = 0 THEN vver + 1 ELSE vver
               /\ last' = IF rc = 0 THEN Mutation(proc[p], "edit") ELSE last
               /\ faults' = faults + Failed(rc0) + Failed(rc2)
    /\ UNCHANGED <<config, files, runs, rt>>

\* set_values: bw create item, the exit status is not looked at
Create(p) ==
    /\ proc[p].pc = "create"
    /\ \E rc0 \in ExitCodes(0) :
         \E rc2 \in IF proc[p].s THEN ExitCodes(Failed(rc0)) ELSE {0} :
           LET rc == MutateRc(proc[p].encoded, rc0)
               r == [proc[p] EXCEPT
                        !.calls = Append(@, Call("create", <<>>, 0,
                                                 proc[p].encoded, rc)),
                        !.log = Append(@, "Created")]
           IN  /\ Become(p, AfterSet(r, rc2))
               /\ vault' = IF rc = 0 THEN BwCreate(vault, proc[p].encoded)
                           ELSE vault
               /\ vver' = IF rc = 0 THEN vver + 1 ELSE vver
               /\ last' = IF rc = 0 THEN Mutation(proc[p], "create") ELSE last
               /\ faults' = faults + Failed(rc0) + Failed(rc2)
    /\ UNCHANGED <<config, files, runs, rt>>

\* The vault an earlier `set d` (A=1, B=2) and `set db` (A= 3) under folder F1
\* leave behind: both items match a search for "d", one matches "db".
UsedVault ==
    BwCreate(
        BwCreate(<<>>, BwEncode(Json(NewItem("F1", <<"d">>,
                     ParseLines(<< <<"A", "=", "1", "\n">>,
                                   <<"B", "=", "2", "\n">> >>).values)), 0)),
        BwEncode(Json(NewItem("F1", <<"d", "b">>,
                     ParseLines(<< <<"A", "=", " ", "3", "\n">> >>).values)), 0))

Init ==
    /\ vault \in {<<>>, UsedVault}
    /\ config \in {NoConfig, "F1"}
    /\ files = [f \in FileNames |-> NoFile]
    /\ proc = [p \in Procs |-> Idle]
    /\ runs = 0
    /\ vver = 0
    /\ last = NoMutation
    /\ faults = 0
    /\ rt = RTIdle

Next ==
    \E p \in Procs :
        \/ MainInit(p)
        \/ MainGet(p)
        \/ MainSet(p)
        \/ MainSync(p)
        \/ Exists(p)
        \/ UpdateValues(p)
        \/ Edit(p)
        \/ Create(p)

Spec == Init /\ [][Next]_vars

(* ------------- the round trip of get_bw's and set_bw's lines ---------- *)
RTInit ==
    /\ vault = <<>>
    /\ config = NoConfig
    /\ files = [f \in FileNames |-> NoFile]
    /\ proc = [p \in Procs |-> Idle]
    /\ runs = 0
    /\ vver = 0
    /\ last = NoMutation
    /\ faults = 0
    /\ rt \in {[RTIdle EXCEPT !.m = m] : m \in RTMappings}

\* get_bw formats the mapping
RTFormat ==
    /\ rt.pc = "idle"
    /\ rt' = [rt EXCEPT !.pc = "formatted", !.lines = FormatLines(rt.m)]
    /\ UNCHANGED <<vault, config, files, proc, runs, vver, last, faults>>

\* set_bw parses the lines
RTParse ==
    /\ rt.pc = "formatted"
    /\ rt' = [rt EXCEPT !.pc = "parsed", !.parsed = ParseLines(rt.lines)]
    /\ UNCHANGED <<vault, config, files, proc, runs, vver, last, faults>>

RTNext == RTFormat \/ RTParse

RTSpec == RTInit /\ [][RTNext]_vars

(* ============================= properties ============================= *)
Mutations(p) ==
    SelectSeq(proc[p].calls, LAMBDA c : c.cmd \in {"edit", "create"})

AllExitedZero(p) ==
    \A i \in 1..Len(proc[p].calls) : proc[p].calls[i].rc = 0

LookupFails(res) == res.rc # 0 \/ Len(res.items) # 1

Last(seq) == seq[Len(seq)]

HasMalformed(lines) == \E i \in 1..Len(lines) : Malformed(lines[i])

Successes == {"Created", "Updated", "Loaded"}

ReportsSuccess(r) ==
    \/ r.status = "exit0"
    \/ \E i \in 1..Len(r.log) : r.log[i] \in Successes

\* C1: a finished set whose calls of bw all exited 0 has issued exactly one
\* mutating call: a create of a secure note (type 2) under the configured
\* folder, named as asked, with exactly the parsed fields, when its search
\* found no item; an edit of a found item's id, with exactly the parsed
\* fields as the field list, when its search found an item.
C1_SetCreatesOrEdits ==
    \A p \in Procs :
        (proc[p].verb = "set" /\ proc[p].status = "exit0" /\ AllExitedZero(p)) =>
            LET m == Mutations(p)
                hits == proc[p].search[1].items
            IN  /\ Len(m) = 1
                /\ hits = <<>> =>
                     /\ m[1].cmd = "create"
                     /\ m[1].input.form = "b64"
                     /\ m[1].input.obj =
                          NewItem(proc[p].folder, proc[p].name, proc[p].values)
                /\ hits # <<>> =>
                     /\ m[1].cmd = "edit"
                     /\ \E i \in 1..Len(hits) : hits[i].id = m[1].id
                     /\ m[1].input.form = "b64"
                     /\ m[1].input.obj.fields = FieldList(proc[p].values)

NoEqNoNewline(str) == \A i \in 1..Len(str) : str[i] \notin {"=", "\n"}

\* C2: for a mapping whose keys and values hold no "=" and no newline, the
\* lines get_bw formats from it are parsed by set_bw into an equal mapping.
C2_RoundTrip ==
    ( /\ rt.pc = "parsed"
      /\ \A i \in 1..Len(rt.m) :
            NoEqNoNewline(rt.m[i][1]) /\ NoEqNoNewline(rt.m[i][2]) )
    => (rt.parsed.ok /\ DictEq(rt.parsed.values, rt.m))

\* the latest change of the vault is the create of a set that had found no
\* item; g is a get of the same name under the same folder whose search ran,
\* and exited 0, on the vault that create left
SetThenGet(g) ==
    /\ last.cmd = "create"
    /\ last.fresh
    /\ proc[g].verb = "get"
    /\ proc[g].name = last.name
    /\ proc[g].folder = last.folder
    /\ Len(proc[g].search) = 1
    /\ proc[g].search[1].rc = 0
    /\ proc[g].seen = last.ver

\* "KEY=VALUE\n" per entry of the mapping, in its order
EnvLines(values) ==
    [i \in 1..Len(values) |->
        values[i][1] \o <<"=">> \o values[i][2] \o <<"\n">>]

\* C3: a set of a name that no item matched, followed with no other change
\* of the vault by a get of that name, makes the get succeed and emit the
\* set's mapping as "KEY=VALUE\n" lines in the mapping's order, on standard
\* output or into the named file; the item read is a secure note of that
\* name under the configured folder.
C3_SetThenGet ==
    [][\A g \in Procs :
          (proc[g]' # proc[g] /\ SetThenGet(g)') =>
              /\ proc[g]'.status = "exit0"
              /\ proc[g]'.out = EnvLines(last.values)
              /\ files' = IF proc[g]'.file = Stdio THEN files
                          ELSE [files EXCEPT ![proc[g]'.file] =
                                  [exists |-> TRUE,
                                   lines |-> EnvLines(last.values)]]
              /\ proc[g]'.got.folderId = last.folder
              /\ proc[g]'.got.name = last.name
              /\ proc[g]'.got.type = 2]_vars

C3_Witness ==
    \E g \in Procs :
        /\ SetThenGet(g)
        /\ runs = 2
        /\ last.ver = 1
        /\ last.folder = "F1"
        /\ last.name = <<"d", "b">>
        /\ last.values = << <<<<"A">>, <<"1">>>>, <<<<"B">>, <<"2">>>> >>
        /\ proc[g].status = "exit0"
        /\ proc[g].file = Stdio
        /\ proc[g].out = << <<"A", "=", "1", "\n">>, <<"B", "=", "2", "\n">> >>

\* C4: exists is true only when its search exited 0 with exactly one match;
\* it is false, and the set goes on without raising, when the search found
\* no item, several items, or exited non-zero.
C4_ExistsIsBoolean ==
    \A p \in Procs :
        (proc[p].verb = "set" /\ Len(proc[p].search) >= 1) =>
            /\ proc[p].found <=> ( /\ proc[p].search[1].rc = 0
                                   /\ Len(proc[p].search[1].items) = 1 )
            /\ ~(proc[p].status = "raised" /\ Len(proc[p].search) = 1)

C4_Witness ==
    \E p, q \in Procs :
        /\ proc[p].verb = "set" /\ proc[p].pc = "create"
        /\ Len(proc[p].search) = 1
        /\ Len(proc[p].search[1].items) >= 2
        /\ ~proc[p].found
        /\ proc[q].verb = "set" /\ proc[q].pc = "create"
        /\ Len(proc[q].search) = 1
        /\ proc[q].search[1].rc # 0
        /\ ~proc[q].found

\* the search that get_folder (init), get_item (get) or the get_item of
\* update_values (set) has looked at
HasLookup(p) ==
    \/ proc[p].verb \in {"init", "get"} /\ Len(proc[p].search) = 1
    \/ proc[p].verb = "set" /\ Len(proc[p].search) = 2

\* C5: get_folder and get_item raise when the search exited 0 with no match
\* or with several, and return the one match when there is exactly one.
C5_UniqueOrRaise ==
    \A p \in Procs :
        HasLookup(p) =>
            LET res == Last(proc[p].search)
            IN  /\ (res.rc = 0 /\ Len(res.items) # 1) =>
                      proc[p].status = "raised"
                /\ (res.rc = 0 /\ Len(res.items) = 1) =>
                      proc[p].status # "raised" /\ proc[p].got = res.items[1]

C5_Witness ==
    \E p \in Procs :
        /\ proc[p].verb = "get" /\ HasLookup(p)
        /\ Last(proc[p].search).rc = 0
        /\ Len(Last(proc[p].search).items) = 2
        /\ proc[p].status = "raised"

\* C6: an invocation of any verb without BW_SESSION exits with status 1, has
\* called bw zero times, and its step writes neither the config file nor an
\* env file (nor changes the vault).
C6_NoSessionNoEffect ==
    [][\A p \in Procs :
          (proc[p]'.verb # "none" /\ proc[p]'.key = None) =>
              /\ proc[p]'.status = "exit1"
              /\ proc[p]'.calls = <<>>
              /\ proc[p]'.out = <<>>
              /\ proc[p]' # proc[p] => UNCHANGED <<vault, config, files>>]_vars

C6_Witness ==
    \E p \in Procs :
        /\ config = "F1"
        /\ proc[p].verb = "set" /\ proc[p].key = None
        /\ proc[p].status = "exit1" /\ proc[p].calls = <<>>

\* C7: the step in which the item lookup of a get fails (no match, several
\* matches, or a non-zero exit of the search) ends the get with a failure and
\* leaves every env file as it was, missing ones included, and standard
\* output empty.
C7_FailedGetWritesNothing ==
    [][\A p \in Procs :
          ( /\ proc[p]' # proc[p]
            /\ proc[p]'.verb = "get"
            /\ Len(proc[p]'.search) = 1
            /\ LookupFails(Last(proc[p]'.search)) ) =>
              /\ proc[p]'.status = "raised"
              /\ ~ReportsSuccess(proc[p]')
              /\ files' = files
              /\ proc[p]'.out = <<>>]_vars

C7_Witness ==
    \E p \in Procs :
        /\ proc[p].verb = "get" /\ proc[p].file = EnvFile
        /\ Len(proc[p].search) = 1
        /\ proc[p].search[1].rc = 0
        /\ proc[p].search[1].items = <<>>
        /\ proc[p].status = "raised"
        /\ ~files[EnvFile].exists

\* C8: in get, set and init, a call of bw other than sync that exits
\* non-zero is the last call of the invocation, which ends in a failure and
\* reports no success.
C8_FailurePropagates ==
    \A p \in Procs :
        proc[p].verb \in {"get", "set", "init"} =>
            \A i \in 1..Len(proc[p].calls) :
                (proc[p].calls[i].cmd # "sync" /\ proc[p].calls[i].rc # 0) =>
                    /\ i = Len(proc[p].calls)
                    /\ proc[p].status = "raised"
                    /\ ~ReportsSuccess(proc[p])

\* C9: once two overlapping sets of the same name under the same folder have
\* both finished (every call of bw having exited 0, the name matched by no
\* item when they searched), the folder holds exactly one item matching the
\* name and its fields are the mapping of one of the two.  The records of two
\* finished invocations stand side by side only when the two overlapped.
C9_LastWriterWins ==
    \A p, q \in Procs :
        ( /\ p # q
          /\ proc[p].verb = "set" /\ proc[q].verb = "set"
          /\ proc[p].status = "exit0" /\ proc[q].status = "exit0"
          /\ proc[p].name = proc[q].name
          /\ proc[p].folder = proc[q].folder
          /\ AllExitedZero(p) /\ AllExitedZero(q)
          /\ proc[p].search[1].items = <<>> /\ proc[q].search[1].items = <<>> )
        => LET hits == ListItems(vault, proc[p].folder, proc[p].name, 0).items
           IN  /\ Len(hits) = 1
               /\ get_values(hits[1]) \in {proc[p].values, proc[q].values}

\* C10: a set whose input holds a line without "=" fails while parsing: it
\* ends in a failure with zero calls of bw, and its step leaves the vault as
\* it was, whatever well-formed lines come before or after that line.
C10_MalformedLineNoCall ==
    [][\A p \in Procs :
          (proc[p]'.verb = "set" /\ HasMalformed(proc[p]'.lines)) =>
              /\ proc[p]'.status = "raised"
              /\ proc[p]'.calls = <<>>
              /\ proc[p]' # proc[p] => vault' = vault]_vars

C10_Witness ==
    \E p \in Procs :
        /\ proc[p].verb = "set" /\ proc[p].key # None
        /\ proc[p].folder = "F1"
        /\ Len(proc[p].lines) = 3
        /\ ~Malformed(proc[p].lines[1])
        /\ Malformed(proc[p].lines[2])
        /\ ~Malformed(proc[p].lines[3])
        /\ proc[p].status = "raised"
        /\ proc[p].calls = <<>>

====
